---------------------------- MODULE Spec2Model ----------------------------
(***************************************************************************)
(* A model of toro (src/toro/__init__.py): callback-style synchronization  *)
(* primitives for a single-threaded Tornado IOLoop.                        *)
(*                                                                         *)
(* Every method of the library is a pure operator on a "world" record (the *)
(* fields of the objects plus the IOLoop's pending callbacks); an action   *)
(* applies one top-level call, one timer fire or one scheduled callback to *)
(* the current world and commits the result.  A user callback is opaque:   *)
(* running it appends to calls[id] what it was given and what it could     *)
(* observe of the primitive at that very moment (queue size, event flag,   *)
(* the call during which it ran).  Calls a user callback would make itself *)
(* are the model's ordinary actions: at every point where the library runs *)
(* a user callback the objects' fields are already those the enclosing     *)
(* call leaves behind, and the rest of the enclosing call only touches the *)
(* IOLoop.                                                                 *)
(***************************************************************************)
EXTENDS Integers, Sequences, FiniteSets, TLC

\* ---- bounds of the model ------------------------------------------------
\* Blocking (callback-bearing) calls made in one behaviour.
MaxCalls == 2
\* Puts made in one behaviour where the puts are recorded.
MaxPuts == 3
\* Largest n given to Condition.notify.
MaxNotify == 3
\* Largest finite maxsize of a Queue.
MaxMaxsize == 1
\* JoinableQueue: puts are made while the unfinished tasks and the items, each
\* with the parked ones, stay below it.
MaxTasks == 2
\* JoinableQueue: blocking calls made in one behaviour.
MaxJoinableCalls == 1
\* Semaphore: largest initial value; releases are made while counter <= MaxValue.
MaxValue == 1

\* ---- program constants --------------------------------------------------
\* maxsize=None: no size limit.
Unbounded == -1

\* ---- callables ----------------------------------------------------------
\* A callable is named by what it is and by the id of the blocking call it
\* belongs to: the caller's callback ("user"), the closure _callback of
\* Queue.put, the lambda of Semaphore.acquire, or the bound method run of
\* the call's waiter.  NoCallback is callback=None.
NoCallback == [fn |-> "None", id |-> 0]
User(id) == [fn |-> "user", id |-> id]
PutCallback(id) == [fn |-> "_callback", id |-> id]
AcquireLambda(id) == [fn |-> "lambda", id |-> id]
WaiterRun(id) == [fn |-> "run", id |-> id]

Items == {"a", "b"}
\* What a PriorityQueue is given.
PriorityItems == {"a", "b", "c"}
\* What AsyncResult.set is given.
Values == {"None", "x", "y"}
\* A Condition is given one waiter more than the other primitives.
MaxWaiters == MaxCalls + 1
CallIds == 1..MaxWaiters

VARIABLES
    kind,             \* the Queue class: "Queue", "JoinableQueue"
    maxsize,          \* Queue.maxsize
    queue,            \* Queue.queue, the storage
    getters,          \* Queue.getters: waiter ids
    putters,          \* Queue.putters: (item, waiter id) pairs
    unfinished_tasks, \* JoinableQueue.unfinished_tasks
    flag,             \* Event._flag (JoinableQueue._finished, Semaphore._unlocked)
    cond_waiters,     \* Event.condition.waiters: waiter ids
    initial_value,    \* BoundedSemaphore._initial_value (Unbounded: plain Semaphore)
    ready,            \* AsyncResult._ready
    value,            \* AsyncResult.value
    ar_waiters,       \* AsyncResult.waiters: waiter ids
    waiter,           \* the _Waiter objects, by the id of the call that made them
    callbacks,        \* IOLoop: functions passed to add_callback, not yet run
    batch,            \* IOLoop: callbacks of the running iteration still to run
    calls,            \* per call id: what its user callback received, in order
    nextId,           \* the id of the next blocking call
    api,              \* per call id: the method called and whether with a timeout
    balance,          \* releases minus successful acquires so far
    last,             \* the latest step: what it returned or raised, if anything
    history,          \* the items of the puts made so far, in call order
                      \* (each with the id of its call where that is needed)
    output,           \* the items the gets delivered so far, in that order
    turn              \* the IOLoop iteration running or last run, counted
                      \* from 1 where a specification counts them (0: not)

vars == <<kind, maxsize, queue, getters, putters, unfinished_tasks, flag,
          cond_waiters, initial_value, ready, value, ar_waiters, waiter,
          callbacks, batch, calls, nextId, api, balance, last, history,
          output, turn>>

\* ---- the world ----------------------------------------------------------
World(op) ==
    [queue |-> queue, getters |-> getters, putters |-> putters,
     unfinished_tasks |-> unfinished_tasks, flag |-> flag,
     cond_waiters |-> cond_waiters, ready |-> ready, value |-> value,
     ar_waiters |-> ar_waiters, waiter |-> waiter, callbacks |-> callbacks,
     calls |-> calls, balance |-> balance,
     op |-> op, ret |-> "None", exc |-> "None"]

\* What is kept of a step: the call is named only when it returned a value
\* or raised.
Quiet == [op |-> "-", ret |-> "None", exc |-> "None"]
Outcome(op, ret, exc) ==
    IF ret = "None" /\ exc = "None" THEN Quiet
    ELSE [op |-> op, ret |-> ret, exc |-> exc]

\* The fields take the values the call leaves.
Store(w) ==
    /\ queue' = w.queue
    /\ getters' = w.getters
    /\ putters' = w.putters
    /\ unfinished_tasks' = w.unfinished_tasks
    /\ flag' = w.flag
    /\ cond_waiters' = w.cond_waiters
    /\ ready' = w.ready
    /\ value' = w.value
    /\ ar_waiters' = w.ar_waiters
    /\ waiter' = w.waiter
    /\ callbacks' = w.callbacks
    /\ calls' = w.calls
    /\ balance' = w.balance
    /\ last' = Outcome(w.op, w.ret, w.exc)
    /\ UNCHANGED <<kind, maxsize, initial_value, turn>>

Commit(w) == Store(w) /\ UNCHANGED <<history, output>>

Return(w, v) == [w EXCEPT !.ret = v]
Raise(w, e) == [w EXCEPT !.exc = e]

\* A user callback runs: it receives arg and can observe the primitive.
UserCallback(w, id, arg) ==
    [w EXCEPT !.calls[id] =
        Append(@, [arg |-> arg, op |-> w.op, qsize |-> Len(w.queue),
                   flag |-> w.flag, tasks |-> w.unfinished_tasks,
                   turn |-> turn])]

\* ---- IOLoop -------------------------------------------------------------
\* io_loop.add_callback(partial(callback, arg))
add_callback(w, callback, arg) ==
    [w EXCEPT !.callbacks = Append(@, [callback |-> callback, arg |-> arg])]

\* ToroBase._next_tick
next_tick(w, callback, arg) ==
    IF callback # NoCallback THEN add_callback(w, callback, arg)
    ELSE w

\* ---- _Waiter ------------------------------------------------------------
\* No waiter was made for the call.
NoWaiter ==
    [callback |-> NoCallback, timeout |-> "none", timeout_args |-> "unset",
     runs |-> 0, woken |-> 0]

\* A waiter that never asks the IOLoop for its timeout.
Waiter_init_no_timer(w, timed, timeout_args, callback) ==
    [w EXCEPT !.waiter[callback.id] =
        [callback |-> callback, timeout |-> "none",
         timeout_args |-> timeout_args, runs |-> 0, woken |-> 0]]

\* _Waiter.__init__; timed: timeout is not None.  The waiter is kept under
\* the id of the call it serves.
Waiter_init(w, timed, timeout_args, callback) ==
    [w EXCEPT !.waiter[callback.id] =
        [callback |-> callback,
         timeout |-> IF timed THEN "armed" ELSE "none",
         timeout_args |-> timeout_args,
         runs |-> 0, woken |-> 0]]

\* A _callback of Queue.put that calls the caller's callback itself.
run_callback_at_once(w, callback, arg) ==
    CASE callback.fn = "user" -> UserCallback(w, callback.id, arg)
      [] callback.fn = "_callback" -> UserCallback(w, callback.id, arg)
      [] callback.fn = "lambda" ->
            IF arg # "Empty"
            THEN UserCallback([w EXCEPT !.balance = @ - 1], callback.id, "True")
            ELSE UserCallback(w, callback.id, "False")

\* ToroBase._run_callback: callback(arg), for the callables a waiter or a
\* Queue.get can hold.
run_callback(w, callback, arg) ==
    CASE callback.fn = "user" -> UserCallback(w, callback.id, arg)
      [] callback.fn = "_callback" -> add_callback(w, User(callback.id), arg)
      [] callback.fn = "lambda" ->
            IF arg # "Empty"
            THEN UserCallback([w EXCEPT !.balance = @ - 1], callback.id, "True")
            ELSE UserCallback(w, callback.id, "False")

\* run was called on waiter id once more; woken keeps the iteration of the
\* first time.
Entered(w, id) ==
    [w EXCEPT !.waiter[id].runs = @ + 1,
              !.waiter[id].woken = IF w.waiter[id].runs = 0 THEN turn ELSE @]

\* A run that forgets to take the callback away.
Waiter_run_keeps_callback(w, id, arg) ==
    IF w.waiter[id].callback # NoCallback
    THEN run_callback(Entered(w, id), w.waiter[id].callback, arg)
    ELSE Entered(w, id)

\* _Waiter.run
Waiter_run(w, id, arg) ==
    IF w.waiter[id].callback # NoCallback
    THEN run_callback([Entered(w, id) EXCEPT !.waiter[id].callback = NoCallback],
                      w.waiter[id].callback, arg)
    ELSE Entered(w, id)

\* _Waiter.expired
expired(w, id) == w.waiter[id].callback = NoCallback

\* ---- AsyncResult --------------------------------------------------------
RECURSIVE run_waiters(_, _, _)
\* for waiter in waiters: waiter.run(arg)
run_waiters(w, waiters, arg) ==
    IF waiters = <<>> THEN w
    ELSE run_waiters(Waiter_run(w, Head(waiters), arg), Tail(waiters), arg)

\* A set that does not look at _ready.
AsyncResult_set_again(w, v) ==
    run_waiters([w EXCEPT !.value = v, !.ready = TRUE, !.ar_waiters = <<>>],
                w.ar_waiters, v)

\* AsyncResult.set
AsyncResult_set(w, v) ==
    IF w.ready THEN Raise(w, "AlreadySet")
    ELSE run_waiters([w EXCEPT !.value = v, !.ready = TRUE, !.ar_waiters = <<>>],
                     w.ar_waiters, v)

\* A get that, the value being ready, forgets the callback.
AsyncResult_get_forgets(w, callback, timed) ==
    IF w.ready THEN
        IF callback = NoCallback THEN Return(w, w.value) ELSE w
    ELSE
        IF callback = NoCallback THEN Raise(w, "NotReady")
        ELSE LET w1 == Waiter_init(w, timed, "None", callback)
             IN [w1 EXCEPT !.ar_waiters = Append(@, callback.id)]

\* AsyncResult.get
AsyncResult_get(w, callback, timed) ==
    IF w.ready THEN
        IF callback = NoCallback THEN Return(w, w.value)
        ELSE next_tick(w, callback, w.value)
    ELSE
        IF callback = NoCallback THEN Raise(w, "NotReady")
        ELSE LET w1 == Waiter_init(w, timed, "None", callback)
             IN [w1 EXCEPT !.ar_waiters = Append(@, callback.id)]

\* ---- Condition ----------------------------------------------------------
\* A notify that does not prune the timed-out waiters.
keep_timed_out_waiters(w) == w

RECURSIVE Condition_consume_timed_out_waiters(_)
\* Condition._consume_timed_out_waiters
Condition_consume_timed_out_waiters(w) ==
    IF w.cond_waiters # <<>> /\ expired(w, Head(w.cond_waiters))
    THEN Condition_consume_timed_out_waiters([w EXCEPT !.cond_waiters = Tail(@)])
    ELSE w

\* Condition.wait
Condition_wait(w, callback, timed) ==
    LET w1 == Waiter_init(w, timed, "()", callback)
    IN [w1 EXCEPT !.cond_waiters = Append(@, callback.id)]

RECURSIVE notify_pop(_, _, _)
\* The while loop of Condition.notify: the world it leaves and the waiters
\* it plans to run.
notify_pop(w, n, waiters) ==
    IF n # 0 /\ w.cond_waiters # <<>>
    THEN notify_pop(
            Condition_consume_timed_out_waiters(
                [w EXCEPT !.cond_waiters = Tail(@)]),
            n - 1, Append(waiters, Head(w.cond_waiters)))
    ELSE [w |-> w, waiters |-> waiters]

\* A notify that runs the waiters and leaves them in the queue.
Condition_notify_keeps(w, n) ==
    LET p == notify_pop(Condition_consume_timed_out_waiters(w), n, <<>>)
    IN run_waiters(w, p.waiters, "()")

\* Condition.notify
Condition_notify(w, n) ==
    LET p == notify_pop(Condition_consume_timed_out_waiters(w), n, <<>>)
    IN run_waiters(p.w, p.waiters, "()")

\* Condition.notify_all
Condition_notify_all(w) == Condition_notify(w, Len(w.cond_waiters))

\* ---- Event --------------------------------------------------------------
\* Event.set
Event_set(w) == Condition_notify_all([w EXCEPT !.flag = TRUE])

\* A clear that leaves the flag.
Event_clear_nothing(w) == w

\* Event.clear
Event_clear(w) == [w EXCEPT !.flag = FALSE]

\* A wait that, the flag being set, runs the callback itself.
Event_wait_at_once(w, callback, timed) ==
    IF w.flag THEN run_callback(w, callback, "()")
    ELSE Condition_wait(w, callback, timed)

\* Event.wait
Event_wait(w, callback, timed) ==
    IF w.flag THEN next_tick(w, callback, "()")
    ELSE Condition_wait(w, callback, timed)

\* ---- PriorityQueue: the heap ---------------------------------------------
\* The order of the items: "a" < "b" < "c".
Rank(item) == CASE item = "a" -> 1 [] item = "b" -> 2 [] item = "c" -> 3
Less(x, y) == Rank(x) < Rank(y)

RECURSIVE siftdown_loop(_, _, _, _)
\* heapq._siftdown: positions count from 0, heap[pos] is the pos+1-th element.
siftdown_loop(heap, startpos, pos, newitem) ==
    LET parentpos == (pos - 1) \div 2 IN
    IF pos > startpos /\ Less(newitem, heap[parentpos + 1])
    THEN siftdown_loop([heap EXCEPT ![pos + 1] = heap[parentpos + 1]],
                       startpos, parentpos, newitem)
    ELSE [heap EXCEPT ![pos + 1] = newitem]
heapq_siftdown(heap, startpos, pos) ==
    siftdown_loop(heap, startpos, pos, heap[pos + 1])

RECURSIVE siftup_loop(_, _, _, _)
\* heapq._siftup
siftup_loop(heap, startpos, pos, newitem) ==
    LET endpos == Len(heap)
        childpos == 2 * pos + 1
        rightpos == childpos + 1
        smaller == IF rightpos < endpos
                      /\ ~Less(heap[childpos + 1], heap[rightpos + 1])
                   THEN rightpos ELSE childpos
    IN IF childpos < endpos
       THEN siftup_loop([heap EXCEPT ![pos + 1] = heap[smaller + 1]],
                        startpos, smaller, newitem)
       ELSE heapq_siftdown([heap EXCEPT ![pos + 1] = newitem], startpos, pos)
heapq_siftup(heap, pos) == siftup_loop(heap, pos, pos, heap[pos + 1])

\* A push that does not restore the heap.
heappush_append(heap, item) == Append(heap, item)

\* heapq.heappush
heappush(heap, item) == heapq_siftdown(Append(heap, item), 0, Len(heap))

\* heapq.heappop: the item returned, and the heap it leaves.
heappop_item(heap) == IF Len(heap) > 1 THEN heap[1] ELSE heap[Len(heap)]
heappop(heap) ==
    LET lastelt == heap[Len(heap)]
        rest == SubSeq(heap, 1, Len(heap) - 1)
    IN IF rest # <<>> THEN heapq_siftup([rest EXCEPT ![1] = lastelt], 0)
       ELSE rest

\* ---- Queue --------------------------------------------------------------
\* A _put at the wrong end of the deque.
Queue__put_front(w, item) == [w EXCEPT !.queue = <<item>> \o @]

\* Queue._put, JoinableQueue._put, PriorityQueue._put
Queue__put(w, item) ==
    IF kind = "JoinableQueue"
    THEN Event_clear([w EXCEPT !.queue = Append(@, item),
                               !.unfinished_tasks = @ + 1])
    ELSE IF kind = "PriorityQueue"
    THEN [w EXCEPT !.queue = heappush(@, item)]
    ELSE [w EXCEPT !.queue = Append(@, item)]

\* A _get that takes the item from the wrong end of the deque.
Queue__get_item_last(w) == w.queue[Len(w.queue)]

\* A _get that reads the head and leaves it in the storage.
Queue__get_peek(w) == w

\* Queue._get, PriorityQueue._get: the item returned, and the world it
\* leaves.
Queue__get_item(w) ==
    IF kind = "PriorityQueue" THEN heappop_item(w.queue) ELSE Head(w.queue)
Queue__get(w) ==
    IF kind = "PriorityQueue" THEN [w EXCEPT !.queue = heappop(@)]
    ELSE [w EXCEPT !.queue = Tail(@)]

\* Queue.qsize
qsize(w) == Len(w.queue)

\* Queue.full
full(w) ==
    IF maxsize = Unbounded THEN FALSE
    ELSE IF maxsize = 0 THEN TRUE
    ELSE qsize(w) = maxsize

\* A put that does not prune the getters.
keep_expired_getters(w) == w

RECURSIVE Queue_consume_expired_getters(_)
\* Queue._consume_expired_getters
Queue_consume_expired_getters(w) ==
    IF w.getters # <<>> /\ expired(w, Head(w.getters))
    THEN Queue_consume_expired_getters([w EXCEPT !.getters = Tail(@)])
    ELSE w

\* A get that does not prune the putters.
keep_expired_putters(w) == w

RECURSIVE Queue_consume_expired_putters(_)
\* Queue._consume_expired_putters
Queue_consume_expired_putters(w) ==
    IF w.putters # <<>> /\ expired(w, Head(w.putters)[2])
    THEN Queue_consume_expired_putters([w EXCEPT !.putters = Tail(@)])
    ELSE w

\* The test written with > for ==.
put_is_overfull(w) == maxsize # Unbounded /\ qsize(w) > maxsize

\* The test `self.maxsize == self.qsize()` of Queue.put (None equals no int).
put_is_full(w) == maxsize # Unbounded /\ maxsize = qsize(w)

\* Queue.put(item, callback, timeout)
Queue_put(w, item, callback, timed) ==
    LET w0 == Queue_consume_expired_getters(w) IN
    IF w0.getters # <<>> THEN
        IF w0.queue # <<>> THEN Raise(w0, "AssertionError")
        ELSE
            LET getter == Head(w0.getters)
                w1 == [w0 EXCEPT !.getters = Tail(@)]
                w2 == Queue__put(w1, item)
                w3 == Waiter_run(Queue__get(w2), getter, Queue__get_item(w2))
            IN next_tick(w3, callback, "True")
    ELSE IF put_is_full(w0) /\ callback # NoCallback THEN
        LET w1 == Waiter_init(w0, timed, "False", PutCallback(callback.id))
        IN [w1 EXCEPT !.putters = Append(@, <<item, callback.id>>)]
    ELSE IF put_is_full(w0) THEN Raise(w0, "Full")
    ELSE next_tick(Queue__put(w0, item), callback, "True")

\* Queue.get(callback, timeout)
Queue_get(w, callback, timed) ==
    LET w0 == Queue_consume_expired_putters(w) IN
    IF w0.putters # <<>> THEN
        IF ~full(w0) THEN Raise(w0, "AssertionError")
        ELSE
            LET item == Head(w0.putters)[1]
                putter == Head(w0.putters)[2]
                w1 == [w0 EXCEPT !.putters = Tail(@)]
                w2 == Queue__put(w1, item)
            IN IF callback # NoCallback
               THEN Waiter_run(
                        run_callback(Queue__get(w2), callback, Queue__get_item(w2)),
                        putter, "True")
               ELSE Return(Queue__get(add_callback(w2, WaiterRun(putter), "True")),
                           Queue__get_item(w2))
    ELSE IF qsize(w0) # 0 THEN
        IF callback # NoCallback
        THEN run_callback(Queue__get(w0), callback, Queue__get_item(w0))
        ELSE Return(Queue__get(w0), Queue__get_item(w0))
    ELSE IF callback # NoCallback THEN
        LET w1 == Waiter_init(w0, timed, "Empty", callback)
        IN [w1 EXCEPT !.getters = Append(@, callback.id)]
    ELSE Raise(w0, "Empty")

\* ---- JoinableQueue ------------------------------------------------------
\* A task_done that sets _finished whatever the count.
JoinableQueue_task_done_sets(w) ==
    IF w.unfinished_tasks <= 0 THEN Raise(w, "ValueError")
    ELSE Event_set([w EXCEPT !.unfinished_tasks = @ - 1])

\* A task_done that tests < 0 for <= 0.
JoinableQueue_task_done_below(w) ==
    IF w.unfinished_tasks < 0 THEN Raise(w, "ValueError")
    ELSE LET w1 == [w EXCEPT !.unfinished_tasks = @ - 1]
         IN IF w1.unfinished_tasks = 0 THEN Event_set(w1) ELSE w1

\* JoinableQueue.task_done
JoinableQueue_task_done(w) ==
    IF w.unfinished_tasks <= 0 THEN Raise(w, "ValueError")
    ELSE LET w1 == [w EXCEPT !.unfinished_tasks = @ - 1]
         IN IF w1.unfinished_tasks = 0 THEN Event_set(w1) ELSE w1

\* JoinableQueue.join
JoinableQueue_join(w, callback, timed) ==
    IF w.unfinished_tasks = 0 THEN next_tick(w, callback, "()")
    ELSE Event_wait(w, callback, timed)

\* ---- Semaphore, BoundedSemaphore ----------------------------------------
\* Semaphore.counter
counter(w) == qsize(w)

\* Semaphore.locked
locked(w) == w.queue = <<>>

\* A release that stores its token whoever waits.
Semaphore_release_stores(w) ==
    Event_set([w EXCEPT !.queue = Append(@, "None"), !.balance = @ + 1])

\* Semaphore.release
Semaphore_release(w) ==
    LET w1 == Queue_put(w, "None", NoCallback, FALSE)
    IN Event_set([w1 EXCEPT !.balance = @ + 1])

\* A release that tests > for >=.
release_above(w) ==
    IF kind = "BoundedSemaphore" /\ counter(w) > initial_value
    THEN Raise(w, "ValueError")
    ELSE Semaphore_release(w)

\* BoundedSemaphore.release, and Semaphore.release for the base class
release(w) ==
    IF kind = "BoundedSemaphore" /\ counter(w) >= initial_value
    THEN Raise(w, "ValueError")
    ELSE Semaphore_release(w)

\* Semaphore.wait
Semaphore_wait(w, callback, timed) == Event_wait(w, callback, timed)

\* Semaphore.acquire
Semaphore_acquire(w, callback, timed) ==
    IF callback # NoCallback
    THEN Queue_get(w, AcquireLambda(callback.id), timed)
    ELSE LET w1 == Queue_get(w, NoCallback, FALSE)
         IN IF w1.exc = "Empty"
            THEN Return([w1 EXCEPT !.exc = "None"], "False")
            ELSE Return([w1 EXCEPT !.balance = @ - 1], "True")

\* ---- Lock ---------------------------------------------------------------
\* An acquire without callback that never returns False.
Lock_acquire_always(w, callback, timed) ==
    IF callback # NoCallback
    THEN Queue_get(w, AcquireLambda(callback.id), timed)
    ELSE Return([w EXCEPT !.queue = IF @ = <<>> THEN @ ELSE Tail(@),
                          !.balance = @ - 1], "True")

\* Lock.acquire
Lock_acquire(w, callback, timed) == Semaphore_acquire(w, callback, timed)

\* Lock.release
Lock_release(w) == Semaphore_release(w)

\* Lock.locked
Lock_locked(w) == locked(w)

\* ---- actions common to every primitive ----------------------------------
\* The id a call uses: a fresh one when it brings a callback.
Callback(blocking) == IF blocking THEN User(nextId) ELSE NoCallback
CanCall(blocking) == blocking => nextId <= MaxCalls
Allocate(method, blocking, timed) ==
    /\ nextId' = IF blocking THEN nextId + 1 ELSE nextId
    /\ api' = IF blocking
              THEN [api EXCEPT ![nextId] = [method |-> method, timed |-> timed]]
              ELSE api

\* The IOLoop starts an iteration: the callbacks pending now form its batch;
\* callbacks added while it runs wait for the next iteration.
StartTurn ==
    /\ batch = 0
    /\ callbacks # <<>>
    /\ batch' = Len(callbacks)
    /\ last' = Quiet
    /\ turn' = IF turn = 0 THEN 0 ELSE turn + 1
    /\ UNCHANGED <<kind, maxsize, queue, getters, putters, unfinished_tasks, flag,
                   cond_waiters, initial_value, ready, value, ar_waiters, waiter,
                   callbacks, calls, nextId, api, balance, history, output>>

\* The IOLoop runs the next callback of the batch.
RunCallback ==
    /\ batch > 0
    /\ LET c == Head(callbacks)
           w0 == [World("tick") EXCEPT !.callbacks = Tail(@)]
       IN Commit(IF c.callback.fn = "run" THEN Waiter_run(w0, c.callback.id, c.arg)
                 ELSE run_callback(w0, c.callback, c.arg))
    /\ batch' = batch - 1
    /\ UNCHANGED <<nextId, api>>

\* The timer of a waiter fires: partial(self.run, *timeout_args).
TimeoutFire(id) ==
    /\ waiter[id].timeout = "armed"
    /\ LET w0 == [World("timeout") EXCEPT !.waiter[id].timeout = "fired"]
       IN Commit(Waiter_run(w0, id, waiter[id].timeout_args))
    /\ UNCHANGED <<batch, nextId, api>>

\* ---- Queue: specification -----------------------------------------------
InitCommon ==
    /\ initial_value = Unbounded
    /\ queue = <<>>
    /\ getters = <<>>
    /\ putters = <<>>
    /\ unfinished_tasks = 0
    /\ flag = FALSE
    /\ cond_waiters = <<>>
    /\ ready = FALSE
    /\ value = "None"
    /\ ar_waiters = <<>>
    /\ waiter = [id \in CallIds |-> NoWaiter]
    /\ callbacks = <<>>
    /\ batch = 0
    /\ calls = [id \in CallIds |-> <<>>]
    /\ nextId = 1
    /\ api = [id \in CallIds |-> [method |-> "none", timed |-> FALSE]]
    /\ balance = 0
    /\ last = Quiet
    /\ history = <<>>
    /\ output = <<>>
    /\ turn = 0

InitQueue ==
    /\ kind = "Queue"
    /\ maxsize \in 0..MaxMaxsize
    /\ InitCommon

Put(item, blocking, timed) ==
    /\ CanCall(blocking)
    /\ Commit(Queue_put(World("put"), item, Callback(blocking), timed))
    /\ Allocate("put", blocking, timed)
    /\ UNCHANGED batch

Get(blocking, timed) ==
    /\ CanCall(blocking)
    /\ Commit(Queue_get(World("get"), Callback(blocking), timed))
    /\ Allocate("get", blocking, timed)
    /\ UNCHANGED batch

\* timeout is read only when a callback is given.
CallModes == {<<FALSE, FALSE>>, <<TRUE, FALSE>>, <<TRUE, TRUE>>}

NextQueue ==
    \/ \E item \in Items, m \in CallModes : Put(item, m[1], m[2])
    \/ \E m \in CallModes : Get(m[1], m[2])
    \/ \E id \in CallIds : TimeoutFire(id)
    \/ StartTurn
    \/ RunCallback

SpecQueue == InitQueue /\ [][NextQueue]_vars

\* ---- AsyncResult: specification -----------------------------------------
InitAsyncResult ==
    /\ kind = "AsyncResult"
    /\ maxsize = Unbounded
    /\ InitCommon

Set(v) ==
    /\ Commit(AsyncResult_set(World("set"), v))
    /\ UNCHANGED <<batch, nextId, api>>

ResultGet(blocking, timed) ==
    /\ CanCall(blocking)
    /\ Commit(AsyncResult_get(World("get"), Callback(blocking), timed))
    /\ Allocate("get", blocking, timed)
    /\ UNCHANGED batch

NextAsyncResult ==
    \/ \E v \in Values : Set(v)
    \/ \E m \in CallModes : ResultGet(m[1], m[2])
    \/ \E id \in CallIds : TimeoutFire(id)
    \/ StartTurn
    \/ RunCallback

SpecAsyncResult == InitAsyncResult /\ [][NextAsyncResult]_vars

\* The IOLoop runs: every iteration it can start it starts, every callback
\* of a started iteration it runs.
FairLoop == WF_vars(StartTurn) /\ WF_vars(RunCallback)

FairAsyncResult == SpecAsyncResult /\ FairLoop

\* ---- JoinableQueue: specification ---------------------------------------
InitJoinable ==
    /\ kind = "JoinableQueue"
    /\ maxsize \in {Unbounded} \cup 0..MaxMaxsize
    /\ queue = <<>>
    /\ getters = <<>>
    /\ putters = <<>>
    /\ unfinished_tasks = 0
    /\ flag = TRUE
    /\ cond_waiters = <<>>
    /\ initial_value = Unbounded
    /\ ready = FALSE
    /\ value = "None"
    /\ ar_waiters = <<>>
    /\ waiter = [id \in CallIds |-> NoWaiter]
    /\ callbacks = <<>>
    /\ batch = 0
    /\ calls = [id \in CallIds |-> <<>>]
    /\ nextId = 1
    /\ api = [id \in CallIds |-> [method |-> "none", timed |-> FALSE]]
    /\ balance = 0
    /\ last = Quiet
    /\ history = <<>>
    /\ output = <<>>
    /\ turn = 0

JoinablePut(item, blocking, timed) ==
    /\ blocking => nextId <= MaxJoinableCalls
    /\ unfinished_tasks + Len(putters) < MaxTasks
    /\ Len(queue) + Len(putters) < MaxTasks
    /\ Put(item, blocking, timed)

TaskDone ==
    /\ Commit(JoinableQueue_task_done(World("task_done")))
    /\ UNCHANGED <<batch, nextId, api>>

JoinableGet(blocking, timed) ==
    /\ blocking => nextId <= MaxJoinableCalls
    /\ Get(blocking, timed)

Join(timed) ==
    /\ nextId <= MaxJoinableCalls
    /\ CanCall(TRUE)
    /\ Commit(JoinableQueue_join(World("join"), Callback(TRUE), timed))
    /\ Allocate("join", TRUE, timed)
    /\ UNCHANGED batch

NextJoinable ==
    \/ \E m \in CallModes : JoinablePut("a", m[1], m[2])
    \/ \E m \in CallModes : JoinableGet(m[1], m[2])
    \/ TaskDone
    \/ \E timed \in BOOLEAN : Join(timed)
    \/ \E id \in CallIds : TimeoutFire(id)
    \/ StartTurn
    \/ RunCallback

SpecJoinable == InitJoinable /\ [][NextJoinable]_vars

\* ---- Semaphore, BoundedSemaphore: specification -------------------------
\* Semaphore(value): value tokens put into an unbounded Queue, and _unlocked
\* set if value is not 0.  initial_value is kept for the plain Semaphore too,
\* which does not store it.
InitSemaphore ==
    /\ kind \in {"Semaphore", "BoundedSemaphore"}
    /\ maxsize = Unbounded
    /\ initial_value \in 0..MaxValue
    /\ queue = [i \in 1..initial_value |-> "None"]
    /\ getters = <<>>
    /\ putters = <<>>
    /\ unfinished_tasks = 0
    /\ flag = (initial_value # 0)
    /\ cond_waiters = <<>>
    /\ ready = FALSE
    /\ value = "None"
    /\ ar_waiters = <<>>
    /\ waiter = [id \in CallIds |-> NoWaiter]
    /\ callbacks = <<>>
    /\ batch = 0
    /\ calls = [id \in CallIds |-> <<>>]
    /\ nextId = 1
    /\ api = [id \in CallIds |-> [method |-> "none", timed |-> FALSE]]
    /\ balance = 0
    /\ last = Quiet
    /\ history = <<>>
    /\ output = <<>>
    /\ turn = 0

Acquire(blocking, timed) ==
    /\ CanCall(blocking)
    /\ Commit(Semaphore_acquire(World("acquire"), Callback(blocking), timed))
    /\ Allocate("acquire", blocking, timed)
    /\ UNCHANGED batch

Release ==
    /\ kind = "BoundedSemaphore" \/ Len(queue) <= MaxValue
    /\ Commit(release(World("release")))
    /\ UNCHANGED <<batch, nextId, api>>

Wait(timed) ==
    /\ CanCall(TRUE)
    /\ Commit(Semaphore_wait(World("wait"), Callback(TRUE), timed))
    /\ Allocate("wait", TRUE, timed)
    /\ UNCHANGED batch

NextSemaphore ==
    \/ \E m \in CallModes : Acquire(m[1], m[2])
    \/ Release
    \/ \E timed \in BOOLEAN : Wait(timed)
    \/ \E id \in CallIds : TimeoutFire(id)
    \/ StartTurn
    \/ RunCallback

SpecSemaphore == InitSemaphore /\ [][NextSemaphore]_vars

\* ---- Lock: specification ------------------------------------------------
\* Lock(): a Semaphore(1).
InitLock ==
    /\ kind = "Lock"
    /\ maxsize = Unbounded
    /\ initial_value = 1
    /\ queue = <<"None">>
    /\ getters = <<>>
    /\ putters = <<>>
    /\ unfinished_tasks = 0
    /\ flag = TRUE
    /\ cond_waiters = <<>>
    /\ ready = FALSE
    /\ value = "None"
    /\ ar_waiters = <<>>
    /\ waiter = [id \in CallIds |-> NoWaiter]
    /\ callbacks = <<>>
    /\ batch = 0
    /\ calls = [id \in CallIds |-> <<>>]
    /\ nextId = 1
    /\ api = [id \in CallIds |-> [method |-> "none", timed |-> FALSE]]
    /\ balance = 0
    /\ last = Quiet
    /\ history = <<>>
    /\ output = <<>>
    /\ turn = 0

LockAcquire(blocking, timed) ==
    /\ CanCall(blocking)
    /\ Commit(Lock_acquire(World("acquire"), Callback(blocking), timed))
    /\ Allocate("acquire", blocking, timed)
    /\ UNCHANGED batch

\* release is called by the holder only: some acquire has succeeded and was
\* not released since.
LockRelease ==
    /\ balance < 0
    /\ Commit(Lock_release(World("release")))
    /\ UNCHANGED <<batch, nextId, api>>

\* A Lock hands nothing to the IOLoop but the timers of its waiters.
NextLock ==
    \/ \E m \in CallModes : LockAcquire(m[1], m[2])
    \/ LockRelease
    \/ \E id \in CallIds : TimeoutFire(id)

SpecLock == InitLock /\ [][NextLock]_vars

\* ---- unbounded FIFO Queue: specification --------------------------------
InitFifo ==
    /\ kind = "Queue"
    /\ maxsize = Unbounded
    /\ InitCommon

\* put(item), put(item, callback), put(item, callback, timeout)
FifoPut(item, blocking, timed) ==
    /\ Len(history) < MaxPuts
    /\ CanCall(blocking)
    /\ Store(Queue_put(World("put"), item, Callback(blocking), timed))
    /\ history' = Append(history, item)
    /\ Allocate("put", blocking, timed)
    /\ UNCHANGED output
    /\ UNCHANGED batch

\* get(callback)
FifoGet == Get(TRUE, FALSE)

\* No waiter of these calls has a timer.
NextFifo ==
    \/ \E item \in Items, m \in CallModes : FifoPut(item, m[1], m[2])
    \/ FifoGet
    \/ StartTurn
    \/ RunCallback

SpecFifo == InitFifo /\ [][NextFifo]_vars

\* ---- PriorityQueue: specification ---------------------------------------
InitPriority ==
    /\ kind = "PriorityQueue"
    /\ maxsize \in {Unbounded} \cup 0..MaxMaxsize
    /\ InitCommon

\* put(item), put(item, callback): the items are put before the first get.
\* A put that raised Full has put nothing.
PriorityPut(item, blocking) ==
    /\ output = <<>>
    /\ turn = 0
    /\ Len(history) < MaxPuts
    /\ CanCall(blocking)
    /\ LET w == Queue_put(World("put"), item, Callback(blocking), FALSE)
       IN /\ Store(w)
          /\ history' = IF w.exc = "None" THEN Append(history, item)
                        ELSE history
    /\ Allocate("put", blocking, FALSE)
    /\ UNCHANGED <<batch, output>>

\* get(), get(callback), while an item is stored or parked: the item is
\* returned, or given to the callback before get returns.
PriorityGet(blocking) ==
    /\ queue # <<>> \/ putters # <<>>
    /\ CanCall(blocking)
    /\ LET w == Queue_get(World("get"), Callback(blocking), FALSE)
       IN /\ Store(w)
          /\ output' = Append(output,
                              IF blocking THEN w.calls[nextId][1].arg ELSE w.ret)
    /\ Allocate("get", blocking, FALSE)
    /\ UNCHANGED <<batch, history>>

\* No waiter of these calls has a timer.
NextPriority ==
    \/ \E item \in PriorityItems, blocking \in BOOLEAN :
            PriorityPut(item, blocking)
    \/ \E blocking \in BOOLEAN : PriorityGet(blocking)
    \/ StartTurn
    \/ RunCallback

SpecPriority == InitPriority /\ [][NextPriority]_vars

\* ---- Queue with its IOLoop iterations counted: specification ------------
InitDeferral ==
    /\ kind = "Queue"
    /\ maxsize \in 0..MaxMaxsize
    /\ initial_value = Unbounded
    /\ queue = <<>>
    /\ getters = <<>>
    /\ putters = <<>>
    /\ unfinished_tasks = 0
    /\ flag = FALSE
    /\ cond_waiters = <<>>
    /\ ready = FALSE
    /\ value = "None"
    /\ ar_waiters = <<>>
    /\ waiter = [id \in CallIds |-> NoWaiter]
    /\ callbacks = <<>>
    /\ batch = 0
    /\ calls = [id \in CallIds |-> <<>>]
    /\ nextId = 1
    /\ api = [id \in CallIds |-> [method |-> "none", timed |-> FALSE]]
    /\ balance = 0
    /\ last = Quiet
    /\ history = <<>>
    /\ output = <<>>
    /\ turn = 1

NextDeferral ==
    \/ \E m \in CallModes : Put("a", m[1], m[2])
    \/ \E m \in CallModes : Get(m[1], m[2])
    \/ \E id \in CallIds : TimeoutFire(id)
    \/ StartTurn
    \/ RunCallback

SpecDeferral == InitDeferral /\ [][NextDeferral]_vars

\* ---- Queue of any maxsize: specification --------------------------------
InitAnyQueue ==
    /\ kind = "Queue"
    /\ maxsize \in {Unbounded} \cup 0..MaxMaxsize
    /\ InitCommon

\* put on a queue of any maxsize; an unbounded one is filled up to
\* MaxMaxsize + 1 items.
AnyPut(blocking, timed) ==
    /\ maxsize = Unbounded => Len(queue) <= MaxMaxsize
    /\ Put("a", blocking, timed)

NextAnyQueue ==
    \/ \E m \in CallModes : AnyPut(m[1], m[2])
    \/ \E m \in CallModes : Get(m[1], m[2])
    \/ \E id \in CallIds : TimeoutFire(id)
    \/ StartTurn
    \/ RunCallback

SpecAnyQueue == InitAnyQueue /\ [][NextAnyQueue]_vars

\* ---- Event: specification -----------------------------------------------
InitEvent ==
    /\ kind = "Event"
    /\ maxsize = Unbounded
    /\ InitCommon

EventSet ==
    /\ Commit(Event_set(World("set")))
    /\ UNCHANGED <<batch, nextId, api>>

EventClear ==
    /\ Commit(Event_clear(World("clear")))
    /\ UNCHANGED <<batch, nextId, api>>

EventWait(timed) ==
    /\ CanCall(TRUE)
    /\ Commit(Event_wait(World("wait"), Callback(TRUE), timed))
    /\ Allocate("wait", TRUE, timed)
    /\ UNCHANGED batch

NextEvent ==
    \/ EventSet
    \/ EventClear
    \/ \E timed \in BOOLEAN : EventWait(timed)
    \/ \E id \in CallIds : TimeoutFire(id)
    \/ StartTurn
    \/ RunCallback

SpecEvent == InitEvent /\ [][NextEvent]_vars

FairEvent == SpecEvent /\ FairLoop

\* ---- Condition: specification -------------------------------------------
InitCondition ==
    /\ kind = "Condition"
    /\ maxsize = Unbounded
    /\ InitCommon

ConditionWait(timed) ==
    /\ nextId <= MaxWaiters
    /\ Commit(Condition_wait(World("wait"), Callback(TRUE), timed))
    /\ Allocate("wait", TRUE, timed)
    /\ UNCHANGED batch

Notify(n) ==
    /\ Commit(Condition_notify(World("notify"), n))
    /\ UNCHANGED <<batch, nextId, api>>

NotifyAll ==
    /\ Commit(Condition_notify_all(World("notify_all")))
    /\ UNCHANGED <<batch, nextId, api>>

\* A Condition hands nothing to the IOLoop but the timers of its waiters.
NextCondition ==
    \/ \E timed \in BOOLEAN : ConditionWait(timed)
    \/ \E n \in 0..MaxNotify : Notify(n)
    \/ NotifyAll
    \/ \E id \in CallIds : TimeoutFire(id)

SpecCondition == InitCondition /\ [][NextCondition]_vars

\* ---- every primitive that takes a timeout: specification ----------------
\* One primitive, of any of the classes whose calls take a timeout.
InitTimeouts ==
    \/ InitQueue
    \/ InitAsyncResult
    \/ InitCondition
    \/ InitEvent
    \/ InitSemaphore

NextTimeouts ==
    \/ kind = "Queue" /\ NextDeferral
    \/ kind = "AsyncResult" /\ NextAsyncResult
    \/ kind = "Condition" /\ NextCondition
    \/ kind = "Event" /\ NextEvent
    \/ kind \in {"Semaphore", "BoundedSemaphore"} /\ NextSemaphore

SpecTimeouts == InitTimeouts /\ [][NextTimeouts]_vars

\* The IOLoop runs add_timeout's callback once the deadline has passed.
FairTimers == \A id \in CallIds : WF_vars(TimeoutFire(id))

FairTimeouts == SpecTimeouts /\ FairLoop /\ FairTimers

\* ---- bounded FIFO Queue, its items followed: specification --------------
\* What a step's callbacks were newly given by calls of get.
NewlyGiven(w) ==
    {id \in CallIds : api[id].method = "get" /\ Len(w.calls[id]) > Len(calls[id])}

\* put: a put that raised Full has put nothing; an item handed to a waiting
\* getter is delivered.
ConservePut(item, blocking, timed) ==
    /\ Len(history) < MaxPuts
    /\ CanCall(blocking)
    /\ LET w == Queue_put(World("put"), item, Callback(blocking), timed)
       IN /\ Store(w)
          /\ history' =
                IF w.exc = "None"
                THEN Append(history,
                            [item |-> item,
                             id |-> IF blocking THEN nextId ELSE 0])
                ELSE history
          /\ output' =
                IF NewlyGiven(w) # {}
                THEN LET g == CHOOSE id \in NewlyGiven(w) : TRUE
                     IN Append(output, w.calls[g][Len(w.calls[g])].arg)
                ELSE output
    /\ Allocate("put", blocking, timed)
    /\ UNCHANGED batch

\* get: the item returned, or given to the callback before get returns, is
\* delivered.
ConserveGet(blocking, timed) ==
    /\ CanCall(blocking)
    /\ LET w == Queue_get(World("get"), Callback(blocking), timed)
       IN /\ Store(w)
          /\ output' =
                IF ~blocking /\ w.ret # "None" THEN Append(output, w.ret)
                ELSE IF blocking /\ w.calls[nextId] # <<>>
                THEN Append(output, w.calls[nextId][1].arg)
                ELSE output
    /\ Allocate("get", blocking, timed)
    /\ UNCHANGED <<batch, history>>

\* The puts are given different items: the n-th put that raises nothing
\* puts the n-th of them.
Distinct == <<"a", "b", "c", "d", "e">>

NextConserve ==
    \/ \E m \in CallModes :
            ConservePut(Distinct[Len(history) + 1], m[1], m[2])
    \/ \E m \in CallModes : ConserveGet(m[1], m[2])
    \/ \E id \in CallIds : TimeoutFire(id)
    \/ StartTurn
    \/ RunCallback

SpecConserve == InitQueue /\ [][NextConserve]_vars

\* ======================= the claims =======================================
\* What call id's callback was given, each time it ran.
Received(id) == {calls[id][i] : i \in 1..Len(calls[id])}
\* A _Waiter was made for call id.
HasWaiter(id) == waiter[id].timeout_args # "unset"
\* Entries of the IOLoop that will run call id's user callback.
Scheduled(id) == {i \in 1..Len(callbacks) : callbacks[i].callback = User(id)}
\* How often the continuation of call id's waiter was invoked: a getter's,
\* an acquire's or a condition's continuation runs the user callback, a
\* putter's schedules it.
Invocations(id) == Len(calls[id]) + Cardinality(Scheduled(id))

\* C1: in a Queue with finite maxsize, qsize() <= maxsize between any two
\* operations and at every moment a user callback runs.
C1_QsizeAtMostMaxsize ==
    /\ Len(queue) <= maxsize
    /\ \A id \in CallIds : \A c \in Received(id) : c.qsize <= maxsize

\* C1, witness: a get with a callback took the item of a parked putter, and
\* its callback ran while the storage held maxsize > 0 items.
C1_Witness ==
    /\ maxsize > 0
    /\ \E id \in CallIds :
        /\ api[id].method = "get"
        /\ \E c \in Received(id) : c.op = "get" /\ c.qsize = maxsize

\* C2: getters non-empty implies the storage is empty, putters non-empty
\* implies qsize() = maxsize (timed-out waiters not yet pruned included), and
\* neither assertion of put and get has failed.
C2_WaitersExcludeStorage ==
    /\ getters # <<>> => queue = <<>>
    /\ putters # <<>> => Len(queue) = maxsize
    /\ last.exc # "AssertionError"

\* C2, witness: two parked putters, the first of them timed out and not yet
\* pruned.
C2_Witness ==
    /\ Len(putters) = 2
    /\ waiter[putters[1][2]].timeout = "fired"
    /\ expired(World("-"), putters[1][2])
    /\ ~expired(World("-"), putters[2][2])

\* C3: the continuation of a waiter is invoked once if run was called on it
\* at all, however often run was called (wake-up and timeout, in either
\* order), and never otherwise.
C3_WaiterRunsAtMostOnce ==
    \A id \in CallIds :
        HasWaiter(id) =>
            Invocations(id) = (IF waiter[id].runs > 0 THEN 1 ELSE 0)

\* C3, witness: run was called twice on one waiter, by a wake-up and by its
\* timer.
C3_Witness ==
    \E id \in CallIds :
        /\ HasWaiter(id)
        /\ waiter[id].runs = 2
        /\ waiter[id].timeout = "fired"

\* What changes when an AsyncResult, a JoinableQueue or a Semaphore is used.
objects == <<queue, getters, putters, unfinished_tasks, flag, cond_waiters,
             ready, value, ar_waiters, waiter, callbacks, calls, balance>>

\* C4: set succeeds once.  A step that makes the result ready is a set that
\* raised nothing; once ready, the result stays ready, its value stays and
\* its waiter list stays empty; a set on a ready result raises AlreadySet
\* and changes nothing.
C4_SetOnce ==
    [][ /\ (~ready /\ ready') => (last'.exc = "None" /\ ar_waiters' = <<>>)
        /\ ready => (ready' /\ value' = value
                        /\ ar_waiters = <<>> /\ ar_waiters' = <<>>)
        /\ (ready /\ \E v \in Values : Set(v)) =>
               (last'.exc = "AlreadySet" /\ UNCHANGED objects) ]_vars

\* C4, witness: a second set was made, with another value than the stored.
C4_Witness ==
    /\ ready
    /\ value = "x"
    /\ last = [op |-> "set", ret |-> "None", exc |-> "AlreadySet"]

\* C5, as claimed: once set(v) was called, every callback registered through
\* get that has been invoked, whether registered before or after the set,
\* was given v.
C5_EveryCallbackObservesValue ==
    ready => \A id \in CallIds : \A c \in Received(id) : c.arg = value

\* C5, amended: whenever the result is ready, each callback registered
\* through get is eventually invoked, once; a callback run by set or by the
\* IOLoop was given the value set, and a callback run by its timeout (which
\* then fired before set) was given None.
C5_CallbackObservesValueOrTimeout ==
    /\ \A id \in CallIds :
          [](ready /\ api[id].method = "get" => <>(Len(calls[id]) = 1))
    /\ [](\A id \in CallIds : \A c \in Received(id) :
            IF c.op = "timeout" THEN c.arg = "None"
            ELSE ready /\ c.arg = value)

\* C5, witness: one callback timed out before set, another was registered
\* after set and has run with the value.
C5_Witness ==
    /\ ready
    /\ value # "None"
    /\ \E id1, id2 \in CallIds :
        /\ \E c \in Received(id1) : c.op = "timeout" /\ c.arg = "None"
        /\ \E c \in Received(id2) : c.op = "tick" /\ c.arg = value

\* C6: _finished is set exactly when unfinished_tasks = 0, between any two
\* calls and at every moment a user callback runs.
C6_FinishedIffNoTasks ==
    /\ flag = (unfinished_tasks = 0)
    /\ \A id \in CallIds : \A c \in Received(id) : c.flag = (c.tasks = 0)

\* C6, witness: a parked putter has timed out and tasks are unfinished.
C6_Witness ==
    /\ putters # <<>>
    /\ waiter[putters[1][2]].timeout = "fired"
    /\ unfinished_tasks > 0
    /\ ~flag

\* join(cb) without timeout, made while tasks were unfinished: cb waits on
\* the condition of _finished.
ParkedJoin(id) ==
    api[id] = [method |-> "join", timed |-> FALSE] /\ HasWaiter(id)

\* C7, as claimed: the callback of such a join fires once, not before the
\* count is 0, and from the IOLoop on a later turn, not inside task_done.
C7_JoinFiresOnLaterTurn ==
    \A id \in CallIds :
        ParkedJoin(id) =>
            /\ Len(calls[id]) <= 1
            /\ \A c \in Received(id) : c.tasks = 0 /\ c.op = "tick"

\* C7, amended: the callback of such a join fires once, inside the
\* task_done call that brings unfinished_tasks to 0 (Event.set runs the
\* waiters of the condition), and has fired whenever the count is 0.
C7_JoinFiresInsideTaskDone ==
    \A id \in CallIds :
        ParkedJoin(id) =>
            /\ Len(calls[id]) <= 1
            /\ \A c \in Received(id) : c.tasks = 0 /\ c.op = "task_done"
            /\ calls[id] = <<>> => unfinished_tasks > 0

\* C7, witness: the callback of a parked join has fired.
C7_Witness ==
    \E id \in CallIds : ParkedJoin(id) /\ calls[id] # <<>>

\* C8: unfinished_tasks is never negative; task_done on a count of 0 raises
\* ValueError and changes neither the count nor the flag nor the queue, and
\* ValueError is raised on no other count.
C8_TaskDoneTooOften ==
    /\ [](unfinished_tasks >= 0)
    /\ [][ /\ (unfinished_tasks = 0 /\ TaskDone) =>
                  (last'.exc = "ValueError" /\ UNCHANGED objects)
           /\ last'.exc = "ValueError" => unfinished_tasks = 0 ]_vars

\* C8, witness: task_done has raised while items were in the queue.
C8_Witness ==
    /\ last = [op |-> "task_done", ret |-> "None", exc |-> "ValueError"]
    /\ queue # <<>>

\* C9: the counter is the initial value plus the releases made minus the
\* acquires that succeeded (returned True, or whose callback was given
\* True); acquires that returned False or timed out took no token.
C9_CounterAccounts ==
    /\ Len(queue) >= 0
    /\ Len(queue) = initial_value + balance

\* C9, witness: one acquire timed out, a later one was woken by a release.
C9_Witness ==
    \E id1, id2 \in CallIds :
        /\ \E c \in Received(id1) : c.op = "timeout" /\ c.arg = "False"
        /\ \E c \in Received(id2) : c.op = "release" /\ c.arg = "True"

\* C10: the counter of a BoundedSemaphore never exceeds its initial value; a
\* release at counter >= initial value raises ValueError and changes
\* nothing, and ValueError is raised by no other release.
C10_BoundedCounter ==
    /\ [](kind = "BoundedSemaphore" => Len(queue) <= initial_value)
    /\ [][ /\ (kind = "BoundedSemaphore" /\ Len(queue) >= initial_value /\ Release)
                  => (last'.exc = "ValueError" /\ UNCHANGED objects)
           /\ last'.exc = "ValueError" =>
                  (kind = "BoundedSemaphore" /\ Len(queue) >= initial_value) ]_vars

\* C10, witness: a release of a BoundedSemaphore holding all its tokens has
\* raised.
C10_Witness ==
    /\ kind = "BoundedSemaphore"
    /\ initial_value > 0
    /\ Len(queue) = initial_value
    /\ last = [op |-> "release", ret |-> "None", exc |-> "ValueError"]

\* C11: a Lock released by its holder only has at most one acquire that
\* succeeded and was not released; while it is held, locked() is True, an
\* acquire without callback returns False, and no callback of an acquire is
\* given True by any step but the holder's release; a callback given True
\* finds the lock locked.
C11_LockMutualExclusion ==
    /\ [](/\ balance \in {-1, 0}
          /\ balance = -1 => Lock_locked(World("-"))
          /\ \A id \in CallIds : \A c \in Received(id) :
                c.arg = "True" => c.qsize = 0)
    /\ [][ balance = -1 =>
             /\ LockAcquire(FALSE, FALSE) => last'.ret = "False"
             /\ ~LockRelease =>
                   \A id \in CallIds :
                       calls'[id] # calls[id] =>
                           calls'[id][Len(calls'[id])].arg = "False" ]_vars

\* C11, witness: the lock is held by an acquire whose callback was woken by
\* the release of an earlier holder, and an acquire without callback has
\* just returned False.
C11_Witness ==
    /\ balance = -1
    /\ \E id \in CallIds : \E c \in Received(id) :
            c.op = "release" /\ c.arg = "True"
    /\ last = [op |-> "acquire", ret |-> "False", exc |-> "None"]

\* The calls of get, in the order they were made.
RECURSIVE GetsFrom(_)
GetsFrom(id) ==
    IF id >= nextId THEN <<>>
    ELSE (IF api[id].method = "get" THEN <<id>> ELSE <<>>) \o GetsFrom(id + 1)
Gets == GetsFrom(1)
\* How many of them had their callback run.
Delivered == Cardinality({i \in 1..Len(Gets) : calls[Gets[i]] # <<>>})

\* C12: in an unbounded FIFO Queue used by puts and by gets with a callback
\* and no timeout, the gets served are the first min(gets, puts) made, each
\* was served once, and the i-th get made was given the item of the i-th put.
C12_FifoOrder ==
    /\ Delivered = (IF Len(Gets) < Len(history) THEN Len(Gets) ELSE Len(history))
    /\ \A i \in 1..Len(Gets) :
          IF i <= Delivered
          THEN Len(calls[Gets[i]]) = 1 /\ calls[Gets[i]][1].arg = history[i]
          ELSE calls[Gets[i]] = <<>>

\* C12, witness: two different items were stored before the first get, and
\* two gets were served.
C12_Witness ==
    /\ Len(history) >= 2
    /\ history[1] # history[2]
    /\ Delivered = 2
    /\ \E c \in Received(Gets[1]) : c.op = "get"

\* The ascending sort of a sequence of items.
RECURSIVE Insert(_, _)
Insert(x, sorted) ==
    IF sorted = <<>> THEN <<x>>
    ELSE IF Less(x, Head(sorted)) THEN <<x>> \o sorted
    ELSE <<Head(sorted)>> \o Insert(x, Tail(sorted))
RECURSIVE Sorted(_)
Sorted(items) ==
    IF items = <<>> THEN <<>> ELSE Insert(Head(items), Sorted(Tail(items)))
\* No put has parked as a blocked putter.
NoPutParked ==
    \A id \in CallIds : api[id].method = "put" => ~HasWaiter(id)
\* What the next get can deliver: the stored items and the item of the
\* oldest parked putter.
Candidates ==
    {queue[i] : i \in 1..Len(queue)}
        \cup (IF putters # <<>> THEN {putters[1][1]} ELSE {})

\* C13, as claimed: once all the items put (stored or parked) were
\* retrieved, they were delivered in ascending order.
C13_DeliveredAscending ==
    Len(output) = Len(history) => output = Sorted(history)

\* C13, amended: when every put stored its item, the gets deliver the items
\* in ascending order; in general a get delivers the least of the stored
\* items and the item of the oldest parked putter.
C13_StoredDeliveredAscending ==
    /\ [](NoPutParked =>
            output = SubSeq(Sorted(history), 1, Len(output)))
    /\ [][ output' # output =>
             LET item == output'[Len(output')]
             IN /\ item \in Candidates
                /\ \A other \in Candidates : ~Less(other, item) ]_vars

\* C13, witness: three items were stored out of order and all retrieved.
C13_Witness ==
    /\ NoPutParked
    /\ history = <<"c", "a", "b">>
    /\ output = <<"a", "b", "c">>

\* put(item, cb) that found the queue full and parked.
ParkedPut(id) == api[id].method = "put" /\ HasWaiter(id)
\* The oldest live putter, the one a get made now would take the item of.
LivePutters == Queue_consume_expired_putters(World("-")).putters

\* C14: the callback of a parked put is given True by the IOLoop only, in an
\* iteration strictly later than the one in which its waiter was woken; a
\* get with a callback that takes the putter's item runs its own callback
\* and wakes the putter in the current iteration without running the
\* putter's callback, and a get without callback leaves the wake-up to a
\* later iteration.
C14_ExtraDeferral ==
    /\ [](\A id \in CallIds : ParkedPut(id) =>
            \A c \in Received(id) :
                c.arg = "True" =>
                    /\ c.op = "tick"
                    /\ waiter[id].woken >= 1
                    /\ c.turn > waiter[id].woken)
    /\ [][ \A m \in CallModes :
             (LivePutters # <<>> /\ Get(m[1], m[2])) =>
                LET id == Head(LivePutters)[2] IN
                /\ calls'[id] = calls[id]
                /\ IF m[1]
                   THEN /\ Len(calls'[nextId]) = 1
                        /\ calls'[nextId][1].turn = turn
                        /\ waiter'[id].woken = turn
                   ELSE /\ waiter'[id].woken = 0
                        /\ callbacks'[Len(callbacks')].callback = WaiterRun(id)
                        /\ Len(callbacks') > batch' ]_vars

\* C14, witness: a get with a callback took the item of a parked put in one
\* iteration, and the put's callback was given True in the next.
C14_Witness ==
    \E p, g \in CallIds :
        /\ ParkedPut(p)
        /\ api[g].method = "get"
        /\ \E c \in Received(g) : c.op = "get" /\ c.turn = waiter[p].woken
        /\ \E c \in Received(p) : c.arg = "True" /\ c.turn = waiter[p].woken + 1

\* A getter, a putter is waiting whose continuation has not run.
SomeLiveGetter ==
    \E i \in 1..Len(getters) : waiter[getters[i]].callback # NoCallback
SomeLivePutter ==
    \E i \in 1..Len(putters) : waiter[putters[i][2]].callback # NoCallback

\* C15: put raises Full exactly when it is called without callback while
\* qsize() = maxsize and no live getter waits, get raises Empty exactly when
\* it is called without callback while the storage is empty and no live
\* putter waits; a call with a callback raises neither, and a Queue with
\* maxsize None never raises Full.
C15_FullAndEmpty ==
    [][ /\ last'.exc = "Full" <=>
               /\ \E timed \in BOOLEAN : AnyPut(FALSE, timed)
               /\ maxsize # Unbounded
               /\ qsize(World("-")) = maxsize
               /\ ~SomeLiveGetter
        /\ last'.exc = "Empty" <=>
               /\ \E timed \in BOOLEAN : Get(FALSE, timed)
               /\ queue = <<>>
               /\ ~SomeLivePutter
        /\ nextId' # nextId => last'.exc = "None" ]_vars

\* C15, witness: a put without callback has raised Full while the only
\* putter parked had timed out, on a queue that holds items.
C15_Witness ==
    /\ last = [op |-> "put", ret |-> "None", exc |-> "Full"]
    /\ maxsize > 0
    /\ putters # <<>>
    /\ ~SomeLivePutter

\* C16, as claimed: a callback registered through Event.wait finds is_set()
\* False when its timeout runs it, and True when set runs it or when the
\* IOLoop runs it because the flag was set at the time of wait.
C16_IsSetTellsCause ==
    \A id \in CallIds :
        api[id].method = "wait" =>
            \A c \in Received(id) : c.flag = (c.op # "timeout")

\* C17, as claimed: a callback registered through Semaphore.wait without
\* timeout runs only at a moment when the counter is greater than zero.
C17_WaitRunsUnlocked ==
    \A id \in CallIds :
        api[id] = [method |-> "wait", timed |-> FALSE] =>
            \A c \in Received(id) : c.qsize > 0

\* wait(cb) that found the flag set: no waiter was made for it.
WaitOnSetFlag(id) == api[id].method = "wait" /\ ~HasWaiter(id)

RECURSIVE LiveOf(_)
LiveOf(waiters) ==
    IF waiters = <<>> THEN <<>>
    ELSE (IF waiter[Head(waiters)].callback # NoCallback
          THEN <<Head(waiters)>> ELSE <<>>) \o LiveOf(Tail(waiters))
Live == LiveOf(cond_waiters)
\* The first min(n, L) of them.
FirstLive(n) == SubSeq(Live, 1, IF n < Len(Live) THEN n ELSE Len(Live))
InSeq(x, seq) == \E i \in 1..Len(seq) : seq[i] = x

\* C19: notify(n) plans to run, in this order, the first min(n, L) of the L
\* live waiters, whatever timed-out waiters lie between them; a notify(n)
\* step runs the continuation of each of them once, inside the call, and of
\* no other waiter, takes them out of the queue and raises nothing, also
\* when n > L.
C19_NotifyWakesFirstLive ==
    /\ [](\A n \in 0..MaxNotify :
            notify_pop(Condition_consume_timed_out_waiters(World("-")),
                       n, <<>>).waiters = FirstLive(n))
    /\ [][ \A n \in 0..MaxNotify :
             Notify(n) =>
                /\ last'.exc = "None"
                /\ \A id \in CallIds :
                      IF InSeq(id, FirstLive(n))
                      THEN /\ Len(calls'[id]) = 1
                           /\ calls'[id][1].op = "notify"
                           /\ ~InSeq(id, cond_waiters')
                      ELSE calls'[id] = calls[id] ]_vars

\* C19, witness: of three waiters the second timed out, and notify ran the
\* first and the third.
C19_Witness ==
    \E id1, id2, id3 \in CallIds :
        /\ id1 < id2 /\ id2 < id3
        /\ \E c \in Received(id1) : c.op = "notify"
        /\ \E c \in Received(id2) : c.op = "timeout"
        /\ \E c \in Received(id3) : c.op = "notify"
        /\ cond_waiters = <<>>

\* C20, as claimed: the queue of a Condition holds no waiter whose
\* continuation has run, by notify or by timeout.
C20_QueueHoldsNoRunWaiter ==
    \A i \in 1..Len(cond_waiters) : waiter[cond_waiters[i]].runs = 0

\* C20, amended: the queue of a Condition holds no waiter whose continuation
\* was run by notify; a waiter run by its timeout stays in the queue, and
\* is not run again, until a notify prunes it: after every notify the queue
\* is empty or its head is live.
C20_QueueHoldsNoNotifiedWaiter ==
    /\ [](\A i \in 1..Len(cond_waiters) :
            LET id == cond_waiters[i] IN
            /\ \A c \in Received(id) : c.op = "timeout"
            /\ Len(calls[id]) <= 1
            /\ waiter[id].runs > 0 => waiter[id].timeout = "fired")
    /\ [][ (NotifyAll \/ \E n \in 0..MaxNotify : Notify(n)) =>
                (cond_waiters' = <<>>
                    \/ waiter'[Head(cond_waiters')].callback # NoCallback) ]_vars

\* C20, witness: a waiter has timed out and is still in the queue, behind a
\* live one.
C20_Witness ==
    /\ Len(cond_waiters) = 2
    /\ waiter[cond_waiters[1]].runs = 0
    /\ waiter[cond_waiters[2]].runs = 1
    /\ calls[cond_waiters[2]] # <<>>

\* The parked acquires whose continuation has not run, oldest first.
RECURSIVE LiveGettersOf(_)
LiveGettersOf(waiters) ==
    IF waiters = <<>> THEN <<>>
    ELSE (IF waiter[Head(waiters)].callback # NoCallback
          THEN <<Head(waiters)>> ELSE <<>>) \o LiveGettersOf(Tail(waiters))
LiveAcquires == LiveGettersOf(getters)
\* The callback of acquire call id did not run in this step.
AcquireQuiet(id) == api[id].method = "acquire" => calls'[id] = calls[id]

\* C21: a release that raises nothing, made while a live acquire is parked,
\* gives True to the callback of the oldest live one, inside the call, runs
\* no other acquire callback and leaves the counter at 0; made while none is
\* parked it adds one to the counter and runs no acquire callback.
C21_ReleaseWakesOldest ==
    [][ (Release /\ last'.exc = "None") =>
          IF LiveAcquires # <<>>
          THEN LET oldest == Head(LiveAcquires) IN
               /\ Len(calls'[oldest]) = Len(calls[oldest]) + 1
               /\ calls'[oldest][Len(calls'[oldest])].arg = "True"
               /\ calls'[oldest][Len(calls'[oldest])].op = "release"
               /\ \A id \in CallIds \ {oldest} : AcquireQuiet(id)
               /\ counter(World("-")) = 0
               /\ Len(queue') = 0
          ELSE /\ Len(queue') = counter(World("-")) + 1
               /\ \A id \in CallIds : AcquireQuiet(id) ]_vars

\* C21, witness: of two parked acquires of a Semaphore(0) the older timed
\* out, and a release woke the younger.
C21_Witness ==
    /\ kind = "Semaphore"
    /\ initial_value = 0
    /\ \E id1, id2 \in CallIds :
        /\ id1 < id2
        /\ api[id1].method = "acquire" /\ api[id2].method = "acquire"
        /\ \E c \in Received(id1) : c.op = "timeout" /\ c.arg = "False"
        /\ \E c \in Received(id2) : c.op = "release" /\ c.arg = "True"
        /\ waiter[id2].timeout = "none"

\* What the callback of call id is given when its timeout runs it.
Payload(id) ==
    CASE api[id].method = "wait" -> "()"
      [] api[id].method = "get" /\ kind = "AsyncResult" -> "None"
      [] api[id].method = "get" /\ kind # "AsyncResult" -> "Empty"
      [] api[id].method = "put" -> "False"
      [] api[id].method = "acquire" -> "False"

\* C22: with the IOLoop running its callbacks and its timers, the callback
\* of every call that made a waiter with a timeout is eventually invoked;
\* when only the timer ran the waiter, the callback was given the timeout
\* payload of the call: nothing for wait, None for AsyncResult.get, Empty
\* for Queue.get, False for Queue.put and Semaphore.acquire.
C22_TimeoutsFire ==
    /\ \A id \in CallIds :
          [](HasWaiter(id) /\ api[id].timed => <>(calls[id] # <<>>))
    /\ [](\A id \in CallIds :
            (HasWaiter(id) /\ waiter[id].timeout = "fired"
                /\ waiter[id].runs = 1 /\ calls[id] # <<>>) =>
                    /\ Len(calls[id]) = 1
                    /\ calls[id][1].arg = Payload(id))

\* C22, witness: a put parked with a timeout on a full queue was never woken
\* and its callback has been given False.
C22_Witness ==
    \E id \in CallIds :
        /\ api[id] = [method |-> "put", timed |-> TRUE]
        /\ HasWaiter(id)
        /\ waiter[id].runs = 1
        /\ calls[id] # <<>>
        /\ calls[id][1].arg = "False"

\* The item of parked put id was taken by a get: the get ran the putter's
\* waiter, or has asked the IOLoop to run it.
Taken(id) ==
    \/ waiter[id].runs > (IF waiter[id].timeout = "fired" THEN 1 ELSE 0)
    \/ \E i \in 1..Len(callbacks) : callbacks[i].callback = WaiterRun(id)

\* C23, as claimed: the callback of a parked put is given True only if a
\* get took the item, and False only if no get took it; a timeout firing
\* after a get without callback took the item does not make it False.
C23_CallbackMatchesFate ==
    \A id \in CallIds :
        ParkedPut(id) =>
            \A c \in Received(id) :
                /\ c.arg = "True" => Taken(id)
                /\ c.arg = "False" => ~Taken(id)

\* The put was discarded: it parked, its timeout fired and no get had taken
\* its item.
Discarded(put) ==
    /\ put.id # 0
    /\ HasWaiter(put.id)
    /\ waiter[put.id].timeout = "fired"
    /\ ~Taken(put.id)
Kept(put) == ~Discarded(put)
\* The items of a sequence of puts, and of a sequence of parked putters.
ItemsOf(puts) == [i \in 1..Len(puts) |-> puts[i].item]
LivePutter(p) == waiter[p[2]].callback # NoCallback
ParkedItems == [i \in 1..Len(SelectSeq(putters, LivePutter)) |->
                    SelectSeq(putters, LivePutter)[i][1]]

\* C24: in a bounded FIFO Queue the items put and not discarded by their
\* putter's timeout are, in put-call order, the items delivered so far, then
\* the items stored, then the items of the live putters: each is in one
\* place, none is delivered twice, and they are delivered in put-call order;
\* a get's callback runs once at most, so no item is handed to a getter
\* that has timed out.
C24_ItemsConserved ==
    /\ output \o queue \o ParkedItems = ItemsOf(SelectSeq(history, Kept))
    /\ \A id \in CallIds : api[id].method = "get" =>
          /\ Len(calls[id]) <= 1
          /\ \A c \in Received(id) : c.op = "timeout" <=> c.arg = "Empty"

\* C24, witness: three items were put, the second by a put that parked and
\* timed out; the other two, different items, were delivered, one of them
\* handed by its put to a waiting getter.
C24_Witness ==
    /\ Len(history) = 3
    /\ Discarded(history[2])
    /\ Len(output) = 2
    /\ output[1] # output[2]
    /\ \E id \in CallIds : \E c \in Received(id) :
            api[id].method = "get" /\ c.op = "put"

=============================================================================
